---- MODULE Spec2Model ----
(***************************************************************************)
(* The connection lifecycle and broadcast engine of src/server.js: the     *)
(* users registry, the per-socket message rate limiter, the validators and *)
(* the socket.io handlers (join, chat message, file message, typing, stop  *)
(* typing, disconnect) with the validation timeout of every connection.    *)
(*                                                                         *)
(* A JavaScript string is a sequence of one-character strings; a value a   *)
(* client may send where a string is expected is a record [t, s] with t    *)
(* the typeof of the value and s its characters when it is a string.       *)
(***************************************************************************)
EXTENDS Integers, Sequences, FiniteSets, TLC

\* ------------------------------------------------------------------ strings

UpperChars == <<"A","B","C","D","E","F","G","H","I","J","K","L","M",
                "N","O","P","Q","R","S","T","U","V","W","X","Y","Z">>
LowerChars == <<"a","b","c","d","e","f","g","h","i","j","k","l","m",
                "n","o","p","q","r","s","t","u","v","w","x","y","z">>
DigitChars == {"0","1","2","3","4","5","6","7","8","9"}
\* the characters \s of a regular expression matches and trim() removes
WhitespaceChars == {" ", "\t", "\n", "\r"}

SeqRange(s) == {s[i] : i \in 1..Len(s)}

\* the lower-case letter of every upper-case letter
UpperToLower ==
    [ch \in SeqRange(UpperChars) |->
        LowerChars[CHOOSE i \in 1..Len(UpperChars) : UpperChars[i] = ch]]

\* String.prototype.toLowerCase, one character
toLowerCaseChar(ch) ==
    IF ch \in DOMAIN UpperToLower THEN UpperToLower[ch] ELSE ch

toLowerCase(s) == [i \in 1..Len(s) |-> toLowerCaseChar(s[i])]

\* String.prototype.slice(from, to) with 0-based, end-exclusive positions
Slice(s, from, to) ==
    IF to <= from THEN <<>> ELSE SubSeq(s, from + 1, to)

\* String.prototype.trim: whitespace removed from both ends
trim(s) ==
    LET keep == {i \in 1..Len(s) : s[i] \notin WhitespaceChars}
    IN IF keep = {} THEN <<>>
       ELSE LET lo == CHOOSE i \in keep : \A j \in keep : i <= j
                hi == CHOOSE i \in keep : \A j \in keep : j <= i
            IN SubSeq(s, lo, hi)

\* values of JavaScript as the handlers see them
JsString(s) == [t |-> "string", s |-> s]
JsUndefined == [t |-> "undefined", s |-> <<>>]
\* !v for a value that is a string or undefined/null
Falsy(v) == v.t = "undefined" \/ (v.t = "string" /\ v.s = <<>>)

\* --------------------------------------------- validation and sanitization

USERNAME_MIN == 2
USERNAME_MAX == 20
MESSAGE_MAX == 500

\* the character class of validPattern: [a-zA-Z0-9\s\-_\.]
ValidUsernameChars ==
    SeqRange(UpperChars) \cup SeqRange(LowerChars) \cup DigitChars
        \cup WhitespaceChars \cup {"-", "_", "."}

validateUsername(username) ==
    IF Falsy(username) \/ username.t # "string" THEN FALSE
    ELSE IF Len(username.s) < USERNAME_MIN \/ Len(username.s) > USERNAME_MAX THEN FALSE
    ELSE \A i \in 1..Len(username.s) : username.s[i] \in ValidUsernameChars

validateMessage(message) ==
    IF Falsy(message) \/ message.t # "string" THEN FALSE
    ELSE IF Len(message.s) > MESSAGE_MAX THEN FALSE
    ELSE TRUE

\* --- the xss filter as sanitizeMessage configures it: an empty whiteList,
\* --- stripIgnoreTag (an unlisted tag is removed) and stripIgnoreTagBody
\* --- ['script'] (a script element is removed with its body)

\* the text left as it is
escapeHtmlNone(s) == s

RECURSIVE escapeHtml(_)
\* "<" becomes "&lt;" and ">" becomes "&gt;"
escapeHtml(s) ==
    IF s = <<>> THEN <<>>
    ELSE (CASE Head(s) = "<" -> <<"&", "l", "t", ";">>
            [] Head(s) = ">" -> <<"&", "g", "t", ";">>
            [] OTHER -> <<Head(s)>>) \o escapeHtml(Tail(s))

\* String.prototype.indexOf(pat, from): 0-based position, -1 when absent
IndexOf(s, pat, from) ==
    LET hits == {i \in from..(Len(s) - Len(pat)) : SubSeq(s, i + 1, i + Len(pat)) = pat}
    IN IF hits = {} THEN -1 ELSE CHOOSE i \in hits : \A j \in hits : i <= j

CommentOpen == <<"<", "!", "-", "-">>
CommentClose == <<"-", "-", ">">>

RECURSIVE stripCommentTagFrom(_, _)
stripCommentTagFrom(html, lastPos) ==
    IF lastPos >= Len(html) THEN <<>>
    ELSE LET i == IndexOf(html, CommentOpen, lastPos)
         IN IF i = -1 THEN Slice(html, lastPos, Len(html))
            ELSE LET j == IndexOf(html, CommentClose, i)
                 IN Slice(html, lastPos, i) \o
                    (IF j = -1 THEN <<>> ELSE stripCommentTagFrom(html, j + 3))

\* comments <!-- ... --> are removed before the tags are parsed
stripCommentTag(html) == stripCommentTagFrom(html, 0)

\* 0-based position of the first whitespace character, -1 when there is none
spaceIndex(html) ==
    LET hits == {i \in 0..(Len(html) - 1) : html[i + 1] \in WhitespaceChars}
    IN IF hits = {} THEN -1 ELSE CHOOSE i \in hits : \A j \in hits : i <= j

getTagName(html) ==
    LET i == spaceIndex(html)
        raw == IF i = -1 THEN Slice(html, 1, Len(html) - 1) ELSE Slice(html, 1, i + 1)
        low == toLowerCase(trim(raw))
        noLead == IF Len(low) > 0 /\ low[1] = "/" THEN Tail(low) ELSE low
    IN IF Len(noLead) > 0 /\ noLead[Len(noLead)] = "/"
       THEN SubSeq(noLead, 1, Len(noLead) - 1) ELSE noLead

isClosing(html) == Len(html) >= 2 /\ html[1] = "<" /\ html[2] = "/"

StripBodyTags == {<<"s", "c", "r", "i", "p", "t">>}
RemovedOpen == <<"[", "r", "e", "m", "o", "v", "e", "d", "]">>
RemovedClose == <<"[", "/", "r", "e", "m", "o", "v", "e", "d", "]">>

\* One tag handed to the filter with the output so far in st.out. A tag of
\* StripBodyTags leaves a marker and, when it closes, records the span to cut
\* (posStart = -1 stands for false; 0 is falsy too, as in the library). Every
\* other tag is dropped: the whiteList is empty and stripIgnoreTag is set.
onIgnoreTag(st, tagHtml) ==
    LET position == Len(st.out)
    IN IF getTagName(tagHtml) \in StripBodyTags
       THEN IF isClosing(tagHtml)
            THEN [st EXCEPT !.out = @ \o RemovedClose,
                            !.removeList = Append(@, <<IF st.posStart # -1 THEN st.posStart
                                                        ELSE position,
                                                       position + Len(RemovedClose)>>),
                            !.posStart = -1]
            ELSE [st EXCEPT !.out = @ \o RemovedOpen,
                            !.posStart = IF st.posStart = -1 \/ st.posStart = 0
                                         THEN position ELSE @]
       ELSE st

RECURSIVE parseTag(_, _, _)
\* the character loop of the tag parser at 0-based position pos; st.tagStart = -1
\* stands for false
parseTag(html, pos, st) ==
    IF pos >= Len(html)
    THEN IF st.lastPos < Len(html)
         THEN [st EXCEPT !.out = @ \o escapeHtml(Slice(html, st.lastPos, Len(html)))]
         ELSE st
    ELSE LET c == html[pos + 1]
         IN IF st.tagStart = -1
            THEN parseTag(html, pos + 1,
                          IF c = "<" THEN [st EXCEPT !.tagStart = pos] ELSE st)
            ELSE IF c = "<"
            THEN parseTag(html, pos + 1,
                          [st EXCEPT !.out = @ \o escapeHtml(Slice(html, st.lastPos, pos)),
                                     !.tagStart = pos,
                                     !.lastPos = pos])
            ELSE IF c = ">" \/ pos = Len(html) - 1
            THEN LET before == [st EXCEPT !.out = @ \o escapeHtml(Slice(html, st.lastPos,
                                                                         st.tagStart))]
                     after == onIgnoreTag(before, Slice(html, st.tagStart, pos + 1))
                 IN parseTag(html, pos + 1,
                             [after EXCEPT !.lastPos = pos + 1, !.tagStart = -1])
            ELSE parseTag(html, pos + 1, st)

RECURSIVE removeSpans(_, _, _)
\* StripTagBody.remove: the recorded spans are cut out of the output
removeSpans(html, removeList, lastPos) ==
    IF removeList = <<>> THEN Slice(html, lastPos, Len(html))
    ELSE Slice(html, lastPos, Head(removeList)[1]) \o
         removeSpans(html, Tail(removeList), Head(removeList)[2])

xss(html) ==
    LET src == stripCommentTag(html)
        st == parseTag(src, 0, [out |-> <<>>, tagStart |-> -1, lastPos |-> 0,
                                posStart |-> -1, removeList |-> <<>>])
    IN removeSpans(st.out, st.removeList, 0)

sanitizeMessage(message) == xss(message)

\* -------------------------------------------------------------- the state

Conns == {"s1", "s2", "s3"}

MESSAGE_LIMIT == 30
MESSAGE_WINDOW == 60 * 1000
VALIDATION_TIMEOUT == 30000
BANNED_USERNAMES == {<<"a","d","m","i","n">>,
                     <<"m","o","d","e","r","a","t","o","r">>,
                     <<"s","y","s","t","e","m">>,
                     <<"b","o","t">>,
                     <<"n","u","l","l">>,
                     <<"u","n","d","e","f","i","n","e","d">>}

\* bounds of the exploration
MaxNow == 60000
MaxRateNow == 120000
TickStep == 60000
MaxCount == 1
MaxRateCount == 32

VARIABLES
    status,               \* socket id -> "new" | "open" | "closed"
    connectionValidated,  \* socket id -> the closure's flag
    validationTimeout,    \* socket id -> [state, at]: the closure's timer
    users,                \* the Map users, in insertion order: <<[id, username, joinTime, messageCount]>>
    messageLimiter,       \* the Map messageLimiter: socket id -> [has, count, resetTime]
    now,                  \* Date.now()
    emitted,              \* what the last step emitted: <<[event, to, data]>>
    roster,               \* the data of the last 'users list' emitted
    joinedAs              \* socket id -> the name as sent in the join that gave it its identity

vars == <<status, connectionValidated, validationTimeout, users, messageLimiter,
          now, emitted, roster, joinedAs>>

NoTimer == [state |-> "none", at |-> 0]
NoLimit == [has |-> FALSE, count |-> 0, resetTime |-> 0]

Init ==
    /\ status = [c \in Conns |-> "new"]
    /\ connectionValidated = [c \in Conns |-> FALSE]
    /\ validationTimeout = [c \in Conns |-> NoTimer]
    /\ users = <<>>
    /\ messageLimiter = [c \in Conns |-> NoLimit]
    /\ now = 0
    /\ emitted = <<>>
    /\ roster = <<>>
    /\ joinedAs = [c \in Conns |-> JsUndefined]

\* ------------------------------------------------- the Map users, socket.io

UserIds(u) == {u[i].id : i \in 1..Len(u)}
\* users.has(id)
usersHas(u, id) == id \in UserIds(u)
UserIndex(u, id) == CHOOSE i \in 1..Len(u) : u[i].id = id
\* the first entry of the Map, whatever the key
usersGetFirst(u, id) == u[1]

\* users.get(id), for an id the Map has
usersGet(u, id) == u[UserIndex(u, id)]
\* a new key put first
usersSetFirst(u, id, value) ==
    IF id \in UserIds(u) THEN [u EXCEPT ![CHOOSE i \in 1..Len(u) : u[i].id = id] = value]
    ELSE <<value>> \o u

\* users.set(id, value): a new key goes last, a key the Map has keeps its place
usersSet(u, id, value) ==
    IF usersHas(u, id) THEN [u EXCEPT ![UserIndex(u, id)] = value]
    ELSE Append(u, value)
\* a delete that removes nothing
usersDeleteNothing(u, id) == u

\* users.delete(id)
usersDelete(u, id) == SelectSeq(u, LAMBDA e : e.id # id)
\* Array.from(users.values()).map(user => user.username)
usernames(u) == [i \in 1..Len(u) |-> u[i].username]

\* the sockets connected to the namespace
Connected(st) == {c \in Conns : st[c] = "open"}
\* io.emit(event, data): to every connected socket
ioEmit(st, event, data) == [event |-> event, to |-> Connected(st), data |-> data]
\* io.emit in the place of socket.broadcast.emit
broadcastEmitToAll(st, id, event, data) ==
    [event |-> event, to |-> Connected(st), data |-> data]

\* socket.broadcast.emit(event, data): to every connected socket but this one
broadcastEmit(st, id, event, data) ==
    [event |-> event, to |-> Connected(st) \ {id}, data |-> data]
\* io.emit in the place of socket.emit
socketEmitToAll(id, event, data) == [event |-> event, to |-> Conns, data |-> data]

\* socket.emit(event, data): to this socket
socketEmit(id, event, data) == [event |-> event, to |-> {id}, data |-> data]

\* new Date().toLocaleTimeString(): the time of day to the second, no date
toLocaleTimeString(t) == (t \div 1000) % 86400

\* the data of the last 'users list' in what a handler emitted, else the old one
LastRoster(old, out) ==
    LET idx == {i \in 1..Len(out) : out[i].event = "users list"}
    IN IF idx = {} THEN old
       ELSE out[CHOOSE i \in idx : \A j \in idx : j <= i].data

\* ------------------------------------------------------ checkMessageRate

\* a new window that starts with one call counted
limitsOfCountingFrom1(ml, id, t) ==
    IF ml[id].has THEN ml[id]
    ELSE [has |-> TRUE, count |-> 1, resetTime |-> t + MESSAGE_WINDOW]

\* messageLimiter.get(socketId) || { count: 0, resetTime: now + MESSAGE_WINDOW }
limitsOf(ml, id, t) ==
    IF ml[id].has THEN ml[id]
    ELSE [has |-> TRUE, count |-> 0, resetTime |-> t + MESSAGE_WINDOW]

\* a window that is over at its reset time already
windowExpiredAtReset(t, resetTime) == t >= resetTime

\* if (now > userLimits.resetTime)
windowExpired(t, resetTime) == t > resetTime

\* a count that stops at the first call over the cap
limitsAfterCapped(ml, id, t) ==
    LET userLimits == limitsOf(ml, id, t)
        current == IF windowExpired(t, userLimits.resetTime)
                   THEN [userLimits EXCEPT !.count = 0, !.resetTime = t + MESSAGE_WINDOW]
                   ELSE userLimits
    IN [current EXCEPT !.count = IF @ > MESSAGE_LIMIT THEN @ ELSE @ + 1]

\* the entry checkMessageRate stores: the window reset when it has expired,
\* then the count incremented
limitsAfter(ml, id, t) ==
    LET userLimits == limitsOf(ml, id, t)
        current == IF windowExpired(t, userLimits.resetTime)
                   THEN [userLimits EXCEPT !.count = 0, !.resetTime = t + MESSAGE_WINDOW]
                   ELSE userLimits
    IN [current EXCEPT !.count = @ + 1]

\* the comparison taken strictly
withinLimitStrict(count) == count < MESSAGE_LIMIT

\* return userLimits.count <= MESSAGE_LIMIT
withinLimit(count) == count <= MESSAGE_LIMIT

\* checkMessageRate(socketId) at time t: the Map afterwards and the result
checkMessageRate(ml, id, t) ==
    LET entry == limitsAfter(ml, id, t)
    IN [limiter |-> [ml EXCEPT ![id] = entry], ok |-> withinLimit(entry.count)]

\* ------------------------------------------------------------- handlers

\* a timer that is never cleared
clearTimeoutForgotten(timer) == timer

clearTimeout(timer) ==
    IF timer.state = "armed" THEN [state |-> "cleared", at |-> 0] ELSE timer

\* what a handler emitted, and the roster the clients now show
Emit(out) ==
    /\ emitted' = out
    /\ roster' = LastRoster(roster, out)

\* io.on('connection'): the flag is false and the validation timer is armed
Connect(c) ==
    /\ status[c] = "new"
    /\ status' = [status EXCEPT ![c] = "open"]
    /\ connectionValidated' = [connectionValidated EXCEPT ![c] = FALSE]
    /\ validationTimeout' = [validationTimeout EXCEPT
                               ![c] = [state |-> "armed", at |-> now + VALIDATION_TIMEOUT]]
    /\ Emit(<<>>)
    /\ UNCHANGED <<users, messageLimiter, now, joinedAs>>

\* the name sanitized, not trimmed
cleanUsernameUntrimmed(username) == sanitizeMessage(username.s)

\* sanitizeMessage(username.trim())
cleanUsernameOf(username) == sanitizeMessage(trim(username.s))

\* the name looked up as it is
usernameBannedExactly(clean) == clean \in BANNED_USERNAMES

\* BANNED_USERNAMES.includes(cleanUsername.toLowerCase())
usernameBanned(clean) == toLowerCase(clean) \in BANNED_USERNAMES

\* the names compared as they are
usernameTakenExactly(u, clean) ==
    \E i \in 1..Len(u) : u[i].username = clean

\* existingUsers.some(user => user.username.toLowerCase() === cleanUsername.toLowerCase())
usernameTaken(u, clean) ==
    \E i \in 1..Len(u) : toLowerCase(u[i].username) = toLowerCase(clean)

\* the checks of the join handler, in their order
joinOutcome(u, username) ==
    IF ~validateUsername(username) THEN "Invalid username"
    ELSE LET clean == cleanUsernameOf(username)
         IN IF usernameBanned(clean) THEN "Username not allowed"
            ELSE IF usernameTaken(u, clean) THEN "Username already taken"
            ELSE "ok"

\* the 'users list' pushed twice
joinEmitsTwice(st, u, c, clean, t) ==
    << broadcastEmit(st, c, "user joined",
                     [username |-> clean, timestamp |-> toLocaleTimeString(t)]),
       ioEmit(st, "users list", usernames(u)),
       ioEmit(st, "users list", usernames(u)) >>

\* what a successful join emits: 'user joined' to the others, 'users list' to all
joinEmits(st, u, c, clean, t) ==
    << broadcastEmit(st, c, "user joined",
                     [username |-> clean, timestamp |-> toLocaleTimeString(t)]),
       ioEmit(st, "users list", usernames(u)) >>

\* a join that sets the flag once the format is right, before the other checks
JoinValidatingFirst(c, username) ==
    /\ status[c] = "open"
    /\ validationTimeout' = [validationTimeout EXCEPT ![c] = clearTimeout(@)]
    /\ LET outcome == joinOutcome(users, username)
       IN IF outcome # "ok"
          THEN /\ Emit(<<socketEmit(c, "error", outcome)>>)
               /\ connectionValidated' = [connectionValidated EXCEPT
                                            ![c] = @ \/ validateUsername(username)]
               /\ UNCHANGED <<users, joinedAs>>
          ELSE LET clean == cleanUsernameOf(username)
                   after == usersSet(users, c, [id |-> c, username |-> clean,
                                                joinTime |-> now, messageCount |-> 0])
               IN /\ connectionValidated' = [connectionValidated EXCEPT ![c] = TRUE]
                  /\ users' = after
                  /\ joinedAs' = [joinedAs EXCEPT ![c] = username]
                  /\ Emit(joinEmits(status, after, c, clean, now))
    /\ UNCHANGED <<status, messageLimiter, now>>

\* socket.on('join')
Join(c, username) ==
    /\ status[c] = "open"
    /\ validationTimeout' = [validationTimeout EXCEPT ![c] = clearTimeout(@)]
    /\ LET outcome == joinOutcome(users, username)
       IN IF outcome # "ok"
          THEN /\ Emit(<<socketEmit(c, "error", outcome)>>)
               /\ UNCHANGED <<connectionValidated, users, joinedAs>>
          ELSE LET clean == cleanUsernameOf(username)
                   after == usersSet(users, c, [id |-> c, username |-> clean,
                                                joinTime |-> now, messageCount |-> 0])
               IN /\ connectionValidated' = [connectionValidated EXCEPT ![c] = TRUE]
                  /\ users' = after
                  /\ joinedAs' = [joinedAs EXCEPT ![c] = username]
                  /\ Emit(joinEmits(status, after, c, clean, now))
    /\ UNCHANGED <<status, messageLimiter, now>>

\* messageType: data.messageType || 'text' ("" stands for a missing one)
messageTypeOf(data) == IF data.messageType = "" THEN "text" ELSE data.messageType

\* a handler of socket id sent the 'chat message' to the others only
chatMessageEmitToOthers(st, id, username, message, messageType, file, t) ==
    broadcastEmit(st, id, "chat message",
           [username |-> username, message |-> message, messageType |-> messageType,
            file |-> file, timestamp |-> toLocaleTimeString(t)])

\* the 'chat message' the message handlers of socket id emit: io.emit, to every
\* connected socket
chatMessageEmit(st, id, username, message, messageType, file, t) ==
    ioEmit(st, "chat message",
           [username |-> username, message |-> message, messageType |-> messageType,
            file |-> file, timestamp |-> toLocaleTimeString(t)])

\* userInfo.messageCount++
countMessage(u, id) ==
    [u EXCEPT ![UserIndex(u, id)].messageCount = @ + 1]

\* a 'chat message' handler that tests the text before it asks the rate limiter
ChatMessageValidatingFirst(c, data) ==
    /\ status[c] = "open"
    /\ IF ~usersHas(users, c) \/ ~connectionValidated[c]
       THEN /\ Emit(<<>>)
            /\ UNCHANGED <<users, messageLimiter>>
       ELSE IF data.nul
       THEN /\ Emit(<<socketEmit(c, "error", "Failed to send message")>>)
            /\ UNCHANGED <<users, messageLimiter>>
       ELSE IF ~validateMessage(data.message)
       THEN /\ Emit(<<socketEmit(c, "error", "Invalid message")>>)
            /\ UNCHANGED <<users, messageLimiter>>
       ELSE LET rate == checkMessageRate(messageLimiter, c, now)
            IN /\ messageLimiter' = rate.limiter
               /\ IF ~rate.ok
                  THEN /\ Emit(<<socketEmit(c, "error", "Too many messages. Please slow down.")>>)
                       /\ UNCHANGED users
                  ELSE /\ users' = countMessage(users, c)
                       /\ Emit(<<chatMessageEmit(status, c, usersGet(users, c).username,
                                                 sanitizeMessage(data.message.s),
                                                 messageTypeOf(data), data.file, now)>>)
    /\ UNCHANGED <<status, connectionValidated, validationTimeout, now, joinedAs>>

\* a 'chat message' handler whose fault on a null payload is answered by nothing
ChatMessageFaultSilent(c, data) ==
    /\ status[c] = "open"
    /\ IF ~usersHas(users, c) \/ ~connectionValidated[c]
       THEN /\ Emit(<<>>)
            /\ UNCHANGED <<users, messageLimiter>>
       ELSE LET rate == checkMessageRate(messageLimiter, c, now)
            IN /\ messageLimiter' = rate.limiter
               /\ IF ~rate.ok
                  THEN /\ Emit(<<socketEmit(c, "error", "Too many messages. Please slow down.")>>)
                       /\ UNCHANGED users
                  ELSE IF data.nul
                  THEN /\ Emit(<<>>)
                       /\ UNCHANGED users
                  ELSE IF ~validateMessage(data.message)
                  THEN /\ Emit(<<socketEmit(c, "error", "Invalid message")>>)
                       /\ UNCHANGED users
                  ELSE /\ users' = countMessage(users, c)
                       /\ Emit(<<chatMessageEmit(status, c, usersGet(users, c).username,
                                                 sanitizeMessage(data.message.s),
                                                 messageTypeOf(data), data.file, now)>>)
    /\ UNCHANGED <<status, connectionValidated, validationTimeout, now, joinedAs>>

\* socket.on('chat message'); data.nul is a null payload, whose data.message throws
ChatMessage(c, data) ==
    /\ status[c] = "open"
    /\ IF ~usersHas(users, c) \/ ~connectionValidated[c]
       THEN /\ Emit(<<>>)
            /\ UNCHANGED <<users, messageLimiter>>
       ELSE LET rate == checkMessageRate(messageLimiter, c, now)
            IN /\ messageLimiter' = rate.limiter
               /\ IF ~rate.ok
                  THEN /\ Emit(<<socketEmit(c, "error", "Too many messages. Please slow down.")>>)
                       /\ UNCHANGED users
                  ELSE IF data.nul
                  THEN /\ Emit(<<socketEmit(c, "error", "Failed to send message")>>)
                       /\ UNCHANGED users
                  ELSE IF ~validateMessage(data.message)
                  THEN /\ Emit(<<socketEmit(c, "error", "Invalid message")>>)
                       /\ UNCHANGED users
                  ELSE /\ users' = countMessage(users, c)
                       /\ Emit(<<chatMessageEmit(status, c, usersGet(users, c).username,
                                                 sanitizeMessage(data.message.s),
                                                 messageTypeOf(data), data.file, now)>>)
    /\ UNCHANGED <<status, connectionValidated, validationTimeout, now, joinedAs>>

\* !data.file || !data.file.filename || !data.file.url
fileInvalid(file) == file.t # "object" \/ file.filename = "" \/ file.url = ""

\* socket.on('file message')
FileMessage(c, data) ==
    /\ status[c] = "open"
    /\ IF ~usersHas(users, c) \/ ~connectionValidated[c]
       THEN /\ Emit(<<>>)
            /\ UNCHANGED <<users, messageLimiter>>
       ELSE LET rate == checkMessageRate(messageLimiter, c, now)
            IN /\ messageLimiter' = rate.limiter
               /\ IF ~rate.ok
                  THEN /\ Emit(<<socketEmit(c, "error", "Too many messages. Please slow down.")>>)
                       /\ UNCHANGED users
                  ELSE IF data.nul
                  THEN /\ Emit(<<socketEmit(c, "error", "Failed to send file")>>)
                       /\ UNCHANGED users
                  ELSE IF fileInvalid(data.file)
                  THEN /\ Emit(<<socketEmit(c, "error", "Invalid file data")>>)
                       /\ UNCHANGED users
                  ELSE /\ users' = countMessage(users, c)
                       /\ Emit(<<chatMessageEmit(status, c, usersGet(users, c).username,
                                                 IF ~Falsy(data.message) /\ validateMessage(data.message)
                                                 THEN sanitizeMessage(data.message.s) ELSE <<>>,
                                                 "file", data.file, now)>>)
    /\ UNCHANGED <<status, connectionValidated, validationTimeout, now, joinedAs>>

\* socket.on('typing')
Typing(c) ==
    /\ status[c] = "open"
    /\ IF usersHas(users, c) /\ connectionValidated[c]
       THEN Emit(<<broadcastEmit(status, c, "user typing", usersGet(users, c).username)>>)
       ELSE Emit(<<>>)
    /\ UNCHANGED <<status, connectionValidated, validationTimeout, users, messageLimiter, now, joinedAs>>

\* a 'stop typing' that is passed on whatever the socket is
StopTypingUnchecked(c) ==
    /\ status[c] = "open"
    /\ Emit(<<broadcastEmit(status, c, "user stop typing", <<>>)>>)
    /\ UNCHANGED <<status, connectionValidated, validationTimeout, users, messageLimiter, now, joinedAs>>

\* socket.on('stop typing')
StopTyping(c) ==
    /\ status[c] = "open"
    /\ IF connectionValidated[c]
       THEN Emit(<<broadcastEmit(status, c, "user stop typing", <<>>)>>)
       ELSE Emit(<<>>)
    /\ UNCHANGED <<status, connectionValidated, validationTimeout, users, messageLimiter, now, joinedAs>>

\* the 'users list' taken from the registry as it was before the step
leaveEmitsStale(st, u, c, username, t) ==
    << broadcastEmit(st, c, "user left",
                     [username |-> username, timestamp |-> toLocaleTimeString(t)]),
       ioEmit(st, "users list", usernames(users)) >>

\* what the disconnect of a socket with an identity emits, the socket gone
leaveEmits(st, u, c, username, t) ==
    << broadcastEmit(st, c, "user left",
                     [username |-> username, timestamp |-> toLocaleTimeString(t)]),
       ioEmit(st, "users list", usernames(u)) >>

\* a disconnect that pushes the 'users list' whether the socket had an identity
\* or not
onDisconnectAnnouncing(c, timer) ==
    LET gone == [status EXCEPT ![c] = "closed"]
    IN /\ status' = gone
       /\ IF usersHas(users, c)
          THEN LET after == usersDelete(users, c)
               IN /\ users' = after
                  /\ messageLimiter' = [messageLimiter EXCEPT ![c] = NoLimit]
                  /\ joinedAs' = [joinedAs EXCEPT ![c] = JsUndefined]
                  /\ Emit(leaveEmits(gone, after, c, usersGet(users, c).username, now))
          ELSE /\ Emit(<<ioEmit(gone, "users list", usernames(users))>>)
               /\ UNCHANGED <<users, messageLimiter, joinedAs>>
       /\ validationTimeout' = [validationTimeout EXCEPT ![c] = clearTimeout(timer)]
       /\ UNCHANGED <<connectionValidated, now>>

\* a disconnect that leaves the rate window of the socket behind
onDisconnectKeepingLimiter(c, timer) ==
    LET gone == [status EXCEPT ![c] = "closed"]
    IN /\ status' = gone
       /\ IF usersHas(users, c)
          THEN LET after == usersDelete(users, c)
               IN /\ users' = after
                  /\ joinedAs' = [joinedAs EXCEPT ![c] = JsUndefined]
                  /\ Emit(leaveEmits(gone, after, c, usersGet(users, c).username, now))
          ELSE /\ Emit(<<>>)
               /\ UNCHANGED <<users, joinedAs>>
       /\ validationTimeout' = [validationTimeout EXCEPT ![c] = clearTimeout(timer)]
       /\ UNCHANGED <<connectionValidated, messageLimiter, now>>

\* socket.on('disconnect'): the socket has left the namespace when it runs;
\* timer is the state of the validation timer as the handler finds it
onDisconnect(c, timer) ==
    LET gone == [status EXCEPT ![c] = "closed"]
    IN /\ status' = gone
       /\ IF usersHas(users, c)
          THEN LET after == usersDelete(users, c)
               IN /\ users' = after
                  /\ messageLimiter' = [messageLimiter EXCEPT ![c] = NoLimit]
                  /\ joinedAs' = [joinedAs EXCEPT ![c] = JsUndefined]
                  /\ Emit(leaveEmits(gone, after, c, usersGet(users, c).username, now))
          ELSE /\ Emit(<<>>)
               /\ UNCHANGED <<users, messageLimiter, joinedAs>>
       /\ validationTimeout' = [validationTimeout EXCEPT ![c] = clearTimeout(timer)]
       /\ UNCHANGED <<connectionValidated, now>>

\* the transport closes the socket
Disconnect(c) ==
    /\ status[c] = "open"
    /\ onDisconnect(c, validationTimeout[c])

\* the callback of validationTimeout: socket.disconnect(true) runs the
\* disconnect handler at once
Timeout(c) ==
    /\ validationTimeout[c].state = "armed"
    /\ now >= validationTimeout[c].at
    /\ IF ~connectionValidated[c]
       THEN onDisconnect(c, [state |-> "fired", at |-> 0])
       ELSE /\ validationTimeout' = [validationTimeout EXCEPT ![c] = [state |-> "fired", at |-> 0]]
            /\ Emit(<<>>)
            /\ UNCHANGED <<status, connectionValidated, users, messageLimiter, now, joinedAs>>

\* time passes
Tick(maxNow) ==
    /\ now + TickStep <= maxNow
    /\ now' = now + TickStep
    /\ Emit(<<>>)
    /\ UNCHANGED <<status, connectionValidated, validationTimeout, users, messageLimiter, joinedAs>>

\* ------------------------------------------------- what the clients send

Alice == <<"A","l","i","c","e">>
AliceLower == <<"a","l","i","c","e">>
Bob == <<"B","o","b">>
Carol == <<"C","a","r","o","l">>
PaddedA == <<" ","a">>
PaddedBob == <<"B","o","b"," ">>
Admin == <<"A","d","m","i","n">>
OneChar == <<"a">>
LongName == [i \in 1..(USERNAME_MAX + 1) |-> "x"]

\* the names a join is tried with: storable ones, padded ones that pass the
\* format check, and one for each way to be rejected
JoinNames == {JsString(Alice), JsString(AliceLower), JsString(Bob), JsString(PaddedBob),
              JsString(PaddedA), JsString(Admin), JsString(OneChar), JsString(LongName),
              JsUndefined}

Hi == <<"h","i">>
BoldTag == <<"<","b",">">>
LongText == [i \in 1..(MESSAGE_MAX + 1) |-> "x"]

NoFile == [t |-> "undefined", filename |-> "", url |-> ""]
PngFile == [t |-> "object", filename |-> "1-2.png", url |-> "/uploads/1-2.png"]
FileNoUrl == [t |-> "object", filename |-> "1-2.png", url |-> ""]

Payload(message, messageType, file) ==
    [nul |-> FALSE, message |-> message, messageType |-> messageType, file |-> file]
NullPayload == [nul |-> TRUE, message |-> JsUndefined, messageType |-> "", file |-> NoFile]

\* payloads of 'chat message': what the page sends, markup only, a client-chosen
\* messageType, an attached file, and the rejected ones
ChatPayloads == {Payload(JsString(Hi), "", NoFile),
                 Payload(JsString(BoldTag), "", NoFile),
                 Payload(JsString(Hi), "file", NoFile),
                 Payload(JsString(Hi), "text", PngFile),
                 Payload(JsString(<<>>), "", NoFile),
                 Payload(JsString(LongText), "", NoFile),
                 NullPayload}

\* payloads of 'file message'
FilePayloads == {Payload(JsString(<<>>), "", PngFile),
                 Payload(JsString(Hi), "", PngFile),
                 Payload(JsString(Hi), "", FileNoUrl),
                 Payload(JsString(Hi), "", NoFile),
                 NullPayload}

\* ------------------------------------------------------ specifications

\* a socket of conns connects, joins with a name of names, or disconnects
LifecycleEvent(conns, names) ==
    \/ \E c \in conns : Connect(c)
    \/ \E c \in conns, n \in names : Join(c, n)
    \/ \E c \in conns : Disconnect(c)

TypingEvent(conns) ==
    \/ \E c \in conns : Typing(c)
    \/ \E c \in conns : StopTyping(c)

\* a 'chat message' of a socket of senders with a payload of chats; a socket
\* sends at most cap rate-checked messages in one window
ChatEvent(senders, chats, cap) ==
    \E c \in senders, d \in chats :
        messageLimiter[c].count < cap /\ ChatMessage(c, d)

FileEvent(senders, files, cap) ==
    \E c \in senders, d \in files :
        messageLimiter[c].count < cap /\ FileMessage(c, d)

TimeoutEvent(conns) == \E c \in conns : Timeout(c)

\* Two sockets, every input, one tick of the clock.
Next ==
    \/ LifecycleEvent({"s1", "s2"}, JoinNames)
    \/ TypingEvent({"s1", "s2"})
    \/ ChatEvent({"s1", "s2"}, ChatPayloads, MaxCount)
    \/ FileEvent({"s1", "s2"}, FilePayloads, MaxCount)
    \/ TimeoutEvent({"s1", "s2"})
    \/ Tick(MaxNow)

Spec == Init /\ [][Next]_vars

\* Three sockets that join, leave and type at one instant; the second one
\* sends well-formed messages.
RosterNames == {JsString(Alice), JsString(AliceLower), JsString(Bob), JsString(Carol)}
NextRoster ==
    \/ LifecycleEvent(Conns, RosterNames)
    \/ TypingEvent(Conns)
    \/ ChatEvent({"s2"}, {Payload(JsString(Hi), "", NoFile)}, MaxCount)
    \/ FileEvent({"s2"}, {Payload(JsString(<<>>), "", PngFile)}, MaxCount)

SpecRoster == Init /\ [][NextRoster]_vars

\* Two sockets, Alice and alice or Bob; Alice sends a full window of messages
\* and more, over two windows.
NextRate ==
    \/ LifecycleEvent({"s1"}, {JsString(Alice)})
    \/ LifecycleEvent({"s2"}, {JsString(AliceLower), JsString(Bob)})
    \/ ChatEvent({"s1"}, {Payload(JsString(Hi), "", NoFile)}, MaxRateCount)
    \/ Tick(MaxRateNow)

SpecRate == Init /\ [][NextRate]_vars

\* Two sockets at one instant; the first one joins under a good or a refused
\* name and sends good and bad messages and files until its window is used up,
\* the second one joins under a name that may be taken.
RejectNames == {JsString(Alice), JsString(Admin), JsString(OneChar)}
RejectChats == {Payload(JsString(Hi), "", NoFile),
                Payload(JsString(LongText), "", NoFile),
                NullPayload}
RejectFiles == {Payload(JsString(Hi), "", PngFile),
                Payload(JsString(Hi), "", FileNoUrl),
                NullPayload}
NextReject ==
    \/ LifecycleEvent({"s1"}, RejectNames)
    \/ LifecycleEvent({"s2"}, {JsString(AliceLower)})
    \/ ChatEvent({"s1"}, RejectChats, MaxRateCount)
    \/ FileEvent({"s1"}, RejectFiles, MaxRateCount)

SpecReject == Init /\ [][NextReject]_vars

\* the pieces the texts to sanitize are made of: tags with and without a body
\* to strip, stray delimiters, a comment and plain text
MaxTokens == 3
ScriptOpen == <<"<", "s", "c", "r", "i", "p", "t", ">">>
ScriptClose == <<"<", "/", "s", "c", "r", "i", "p", "t", ">">>
SanitizeTokens == {ScriptOpen, ScriptClose, BoldTag, <<"<">>, <<">">>, <<"a">>,
                   CommentOpen, CommentClose}
RECURSIVE TextsOf(_)
\* the texts of at most n pieces
TextsOf(n) ==
    IF n = 0 THEN {<<>>}
    ELSE TextsOf(n - 1) \cup {t \o k : t \in TextsOf(n - 1), k \in SanitizeTokens}
SanitizeTexts == TextsOf(MaxTokens)

\* One socket that joins and sends one text, alone or with a file.
NextSanitize ==
    \/ LifecycleEvent({"s1"}, {JsString(Alice), JsString(BoldTag)})
    \/ ChatEvent({"s1"}, {Payload(JsString(x), "", NoFile) : x \in SanitizeTexts}, MaxCount)
    \/ FileEvent({"s1"}, {Payload(JsString(x), "", PngFile) : x \in SanitizeTexts}, MaxCount)

SpecSanitize == Init /\ [][NextSanitize]_vars

\* Two sockets that connect, join under every name, again and again, and
\* disconnect, at one instant.
NextJoin == LifecycleEvent({"s1", "s2"}, JoinNames)

SpecJoin == Init /\ [][NextJoin]_vars

\* ================================================================ claims

EqualIgnoringCase(a, b) == toLowerCase(a) = toLowerCase(b)
TooManyMessages == "Too many messages. Please slow down."

\* C1: in every reachable state the registry holds at most one identity per
\* socket id, and no two identities have names equal up to letter case.
C1_RegistryUnique ==
    \A i, j \in 1..Len(users) :
        i # j => /\ users[i].id # users[j].id
                 /\ ~EqualIgnoringCase(users[i].username, users[j].username)

\* two identities are held and a join with a name taken up to case was just refused
C1_Witness ==
    /\ Len(users) = 2
    /\ users[1].username = Alice
    /\ emitted = <<socketEmit("s2", "error", "Username already taken")>>

\* a join of socket c with name n that gets past the format check, c holding
\* no identity yet (every join answers: the cheap tests come first)
FreshJoin(c, n) ==
    /\ status[c] = "open"
    /\ ~usersHas(users, c)
    /\ emitted' # <<>>
    /\ validateUsername(n)
    /\ Join(c, n)

Reserved(name) == \E b \in BANNED_USERNAMES : EqualIgnoringCase(name, b)
ActiveUpToCase(name) == \E i \in 1..Len(users) : EqualIgnoringCase(users[i].username, name)
RefusedAsTaken(c) ==
    /\ emitted' = <<socketEmit(c, "error", "Username already taken")>>
    /\ users' = users
Registered(c, name) ==
    /\ users' = Append(users, [id |-> c, username |-> name, joinTime |-> now,
                               messageCount |-> 0])
    /\ connectionValidated'[c]

\* C2 as amended: a join by a socket without identity, with a valid name that
\* is not reserved once trimmed, succeeds and registers the trimmed name when
\* no active name equals the trimmed name up to letter case, whatever was
\* registered before; it is refused with 'Username already taken', the registry
\* unchanged, when an active name equals the trimmed name up to letter case.
C2_JoinByTrimmedName ==
    [][\A c \in Conns, n \in JoinNames :
          (FreshJoin(c, n) /\ ~Reserved(trim(n.s)))
             => IF ActiveUpToCase(trim(n.s)) THEN RefusedAsTaken(c)
                ELSE Registered(c, trim(n.s))]_vars

\* Alice holds an identity and the join of the other socket as alice was refused
C2_Witness ==
    /\ usernames(users) = <<Alice>>
    /\ users[1].id = "s1"
    /\ status["s2"] = "open"
    /\ emitted = <<socketEmit("s2", "error", "Username already taken")>>

\* the names the active identities were joined with, as sent
SentByActive == {joinedAs[users[i].id].s : i \in 1..Len(users)}

\* C2 as stated: the names as sent decide: a join with a valid, non-reserved
\* name that differs up to letter case from every name an active identity was
\* joined with succeeds, and one equal to an active name up to letter case is
\* refused as taken.
C2_JoinByNameAsSent ==
    [][\A c \in Conns, n \in JoinNames :
          (FreshJoin(c, n) /\ ~Reserved(n.s) /\ ~Reserved(trim(n.s)))
             => /\ ActiveUpToCase(n.s) => RefusedAsTaken(c)
                /\ (\A sent \in SentByActive : ~EqualIgnoringCase(sent, n.s))
                      => usersHas(users', c)]_vars

\* a 'chat message' event of socket c that reaches the rate limiter
RateChecked(c) ==
    /\ usersHas(users, c)
    /\ connectionValidated[c]
    /\ messageLimiter'[c] # messageLimiter[c]
    /\ \E d \in ChatPayloads : ChatMessage(c, d)

\* the window of c is open: it has an entry whose reset time has not passed
WindowOpen(c) == messageLimiter[c].has /\ now <= messageLimiter[c].resetTime
\* the number of this call in its window
CallNumber(c) == IF WindowOpen(c) THEN messageLimiter[c].count + 1 ELSE 1
RateRefused(c) == emitted' = <<socketEmit(c, "error", TooManyMessages)>>

\* C3: of the calls of checkMessageRate for a socket in one window the first
\* 30 return true and the 31st returns false; the first call after the reset
\* time has passed returns true again.
C3_RateWindow ==
    [][\A c \in Conns :
          RateChecked(c)
             => /\ CallNumber(c) <= MESSAGE_LIMIT => ~RateRefused(c)
                /\ CallNumber(c) = MESSAGE_LIMIT + 1 => RateRefused(c)
                /\ (messageLimiter[c].has /\ now > messageLimiter[c].resetTime)
                      => (~RateRefused(c) /\ messageLimiter'[c].count = 1)]_vars

\* 30 messages went out in the first window, which has been used beyond its
\* cap, and the first call of the next window was let through
C3_Witness ==
    /\ usersHas(users, "s1")
    /\ usersGet(users, "s1").messageCount = MESSAGE_LIMIT + 1
    /\ messageLimiter["s1"].count = 1
    /\ messageLimiter["s1"].resetTime = now + MESSAGE_WINDOW
    /\ now > MESSAGE_WINDOW
    /\ Len(emitted) = 1 /\ emitted[1].event = "chat message"

\* C4: a successful join of a socket without identity pushes a 'users list'
\* that is the last one with the new name appended, so N joins in a row give
\* the N names in join order; the disconnect of a socket with an identity
\* pushes the last one with that name removed and the others in their order.
C4_RosterInJoinOrder ==
    [][\A c \in Conns :
          /\ \A n \in RosterNames :
                (FreshJoin(c, n) /\ usersHas(users', c))
                   => /\ roster' = Append(roster, usersGet(users', c).username)
                      /\ emitted'[Len(emitted')] = ioEmit(status', "users list", roster')
          /\ (usersHas(users, c) /\ status'[c] = "closed" /\ Disconnect(c))
                => /\ roster' = SelectSeq(roster, LAMBDA x : x # usersGet(users, c).username)
                   /\ Len(roster') = Len(roster) - 1
                   /\ emitted'[Len(emitted')] = ioEmit(status', "users list", roster')]_vars

\* three sockets joined, the second has left: the first and third remain in order
C4_Witness ==
    /\ Len(users) = 2
    /\ users[1].id = "s1" /\ users[2].id = "s3"
    /\ status["s2"] = "closed"
    /\ roster = <<users[1].username, users[2].username>>
    /\ Len(emitted) = 2 /\ emitted[1].event = "user left"

\* C5: a socket whose validation timer fired (no join event came before the
\* deadline) is disconnected, never validated, holds no identity and has no
\* name in the roster, which lists the registry's names.
C5_TimeoutCloses ==
    \A c \in Conns :
        validationTimeout[c].state = "fired"
           => /\ status[c] = "closed"
              /\ ~connectionValidated[c]
              /\ ~usersHas(users, c)
              /\ roster = usernames(users)

\* the timer of s2 fired while s1 holds an identity
C5_Witness ==
    /\ validationTimeout["s2"].state = "fired"
    /\ status["s2"] = "closed"
    /\ usersHas(users, "s1")

AliceAlone == usernames(users) = <<Alice>> /\ users[1].id = "s1"
AliceAndBob ==
    /\ usernames(users) = <<Alice, Bob>>
    /\ users[1].id = "s1" /\ users[2].id = "s2"
    /\ Connected(status) = {"s1", "s2"}
HiFromAlice ==
    chatMessageEmit(status, "s1", Alice, Hi, "text", NoFile, now)

\* C6: with Alice registered on s1, the join of s2 as alice is refused as taken
\* and its join as Bob succeeds with the roster <<Alice, Bob>> pushed to both;
\* of the valid text messages s1 then sends in one window each of the first 30
\* is broadcast as a 'chat message' to s1 and s2, and the 31st is not broadcast
\* and gets the rate error, sent to s1 only; the numbering starts at one with
\* the first message s1 ever sends.
C6_EndToEnd ==
    [][/\ (AliceAlone /\ FreshJoin("s2", JsString(AliceLower))) => RefusedAsTaken("s2")
       /\ (AliceAlone /\ FreshJoin("s2", JsString(Bob)))
             => /\ usernames(users') = <<Alice, Bob>>
                /\ emitted'[2] = [event |-> "users list", to |-> {"s1", "s2"},
                                  data |-> <<Alice, Bob>>]
       /\ (AliceAndBob /\ RateChecked("s1"))
             => /\ ~messageLimiter["s1"].has => messageLimiter'["s1"].count = 1
                /\ CallNumber("s1") <= MESSAGE_LIMIT
                     => /\ emitted' = <<HiFromAlice>>
                        /\ emitted'[1].to = {"s1", "s2"}
                /\ CallNumber("s1") = MESSAGE_LIMIT + 1
                     => /\ emitted' = <<socketEmit("s1", "error", TooManyMessages)>>
                        /\ users' = users]_vars

\* Alice and Bob are registered, 30 messages of Alice went out in this window
\* and her 31st was just refused
C6_Witness ==
    /\ AliceAndBob
    /\ users[1].messageCount = MESSAGE_LIMIT
    /\ messageLimiter["s1"].count = MESSAGE_LIMIT + 1
    /\ emitted = <<socketEmit("s1", "error", TooManyMessages)>>

\* C7: every 'chat message' emitted has a non-empty text when its kind is text
\* and a file when its kind is file.
C7_MessageKinds ==
    \A i \in 1..Len(emitted) :
        emitted[i].event = "chat message"
           => /\ emitted[i].data.messageType = "text" => emitted[i].data.message # <<>>
              /\ emitted[i].data.messageType = "file" => emitted[i].data.file.t = "object"

\* C8: every display name in the registry has 2 to 20 characters.
C8_NameLength ==
    \A i \in 1..Len(users) :
        /\ Len(users[i].username) >= USERNAME_MIN
        /\ Len(users[i].username) <= USERNAME_MAX

\* the one event emitted is a 'chat message' from c that goes to every socket
\* with an identity, c among them
DeliveredToAll(c) ==
    /\ Len(emitted') = 1
    /\ emitted'[1].event = "chat message"
    /\ emitted'[1].data.username = usersGet(users, c).username
    /\ UserIds(users) \subseteq emitted'[1].to
    /\ c \in emitted'[1].to

\* C9: a text or file message of a socket with an identity that the rate
\* limiter lets through and that is valid goes out as a 'chat message' to every
\* socket with an identity, the sender included.
C9_MessageToAll ==
    [][\A c \in Conns :
          (/\ usersHas(users, c)
           /\ connectionValidated[c]
           /\ messageLimiter'[c] # messageLimiter[c]
           /\ checkMessageRate(messageLimiter, c, now).ok)
             => /\ \A d \in ChatPayloads :
                      (~d.nul /\ validateMessage(d.message) /\ ChatMessage(c, d))
                         => DeliveredToAll(c)
                /\ \A d \in FilePayloads :
                      (~d.nul /\ ~fileInvalid(d.file) /\ FileMessage(c, d))
                         => DeliveredToAll(c)]_vars

\* three identities, and a message of s2 went to all three sockets
C9_Witness ==
    /\ Len(users) = 3
    /\ Len(emitted) = 1
    /\ emitted[1].event = "chat message"
    /\ emitted[1].data.username = usersGet(users, "s2").username
    /\ emitted[1].to = {"s1", "s2", "s3"}

SelfExcluded == {"user joined", "user left", "user typing", "user stop typing"}
EventsOf(out) == {out[i].event : i \in 1..Len(out)}

\* socket c caused the step: it joined, typed, stopped typing or disconnected
CausedBy(c) ==
    /\ status[c] = "open"
    /\ \/ \E n \in RosterNames : Join(c, n)
       \/ Typing(c)
       \/ StopTyping(c)
       \/ Disconnect(c)

\* C10: the 'user joined', 'user left', 'user typing' and 'user stop typing' a
\* socket causes go to every other connected socket and not to itself, and
\* they are emitted: for a join that registers, a disconnect or a typing of a
\* socket with an identity, and a stop typing of a validated socket.
C10_SelfExclusion ==
    [][/\ \A i \in 1..Len(emitted') :
             emitted'[i].event \in SelfExcluded
                => \A c \in Conns :
                      CausedBy(c) => /\ c \notin emitted'[i].to
                                     /\ emitted'[i].to = Connected(status') \ {c}
       /\ \A c \in Conns :
             /\ (~usersHas(users, c) /\ usersHas(users', c))
                   => "user joined" \in EventsOf(emitted')
             /\ usersHas(users, c)
                   => /\ (status'[c] = "closed" /\ Disconnect(c))
                            => "user left" \in EventsOf(emitted')
                      /\ (emitted' # <<>> /\ Typing(c))
                            => "user typing" \in EventsOf(emitted')
                      /\ (emitted' # <<>> /\ StopTyping(c))
                            => "user stop typing" \in EventsOf(emitted')]_vars

\* s1 types and the other two sockets, one of them without identity, are told
C10_Witness ==
    /\ Len(users) = 2
    /\ usersHas(users, "s1")
    /\ emitted = <<[event |-> "user typing", to |-> {"s2", "s3"},
                    data |-> usersGet(users, "s1").username]>>

Broadcasts == {"chat message", "users list", "user joined", "user left",
               "user typing", "user stop typing"}

\* C11: every 'chat message', 'users list', 'user joined', 'user left',
\* 'user typing' and 'user stop typing' emitted goes only to sockets that hold
\* an identity in the registry: a socket that is connected and has not joined
\* gets none of them.
C11_OnlyToRegistered ==
    \A i \in 1..Len(emitted) :
        emitted[i].event \in Broadcasts => emitted[i].to \subseteq UserIds(users)

\* the window of c is open and has been used up
OverCap(c) == WindowOpen(c) /\ messageLimiter[c].count >= MESSAGE_LIMIT
\* nothing but the rate error, to c alone; no message counted, the call counted
RefusedByRate(c) ==
    /\ emitted' = <<socketEmit(c, "error", TooManyMessages)>>
    /\ users' = users
    /\ messageLimiter'[c].count = messageLimiter[c].count + 1

\* C12: a 'chat message' or 'file message' of a socket with an identity whose
\* window is used up is not broadcast: the one event emitted is the error
\* 'Too many messages. Please slow down.' to the sender alone, the sender's
\* messageCount stays and the counter of its window goes up by one.
C12_RefusedByRate ==
    [][\A c \in Conns :
          (/\ usersHas(users, c)
           /\ connectionValidated[c]
           /\ emitted' # <<>>
           /\ OverCap(c))
             => /\ \A d \in ChatPayloads : ChatMessage(c, d) => RefusedByRate(c)
                /\ \A d \in FilePayloads : FileMessage(c, d) => RefusedByRate(c)]_vars

\* s1 has sent a full window of messages that went out and was then refused
\* twice, s2 being connected
C12_Witness ==
    /\ usersHas(users, "s1")
    /\ usersGet(users, "s1").messageCount = MESSAGE_LIMIT
    /\ messageLimiter["s1"].count = MESSAGE_LIMIT + 2
    /\ emitted = <<socketEmit("s1", "error", TooManyMessages)>>
    /\ status["s2"] = "open"

\* the one event emitted is an error, to c alone
OnlyErrorTo(c) ==
    /\ Len(emitted') = 1
    /\ emitted'[1].event = "error"
    /\ emitted'[1].to = {c}

\* the name fails a check of the join handler
NameRefused(n) ==
    \/ ~validateUsername(n)
    \/ Reserved(trim(n.s))
    \/ ActiveUpToCase(trim(n.s))

C14_WindowHasIdentity ==
    \A c \in Conns : messageLimiter[c].has => usersHas(users, c)

\* s1 holds an identity and a rate window; s2 has just left: its identity and
\* its window are gone
C14_Witness ==
    /\ usersHas(users, "s1")
    /\ messageLimiter["s1"].has
    /\ status["s2"] = "closed"
    /\ ~messageLimiter["s2"].has
    /\ Len(emitted) = 2
    /\ emitted[1].event = "user left"

Contains(names, name) == \E i \in 1..Len(names) : names[i] = name
\* the data of the 'users list' events of the step
RostersOf(out) == {out[i].data : i \in {j \in 1..Len(out) : out[j].event = "users list"}}

\* C15: a join that registers a socket and a disconnect of a socket with an
\* identity emit a 'users list'; every 'users list' emitted is the names of
\* the registry as the step leaves it, so after a join it holds the name
\* registered and after a disconnect it does not hold the name that left.
C15_RosterAfterMutation ==
    [][/\ \A r \in RostersOf(emitted') : r = usernames(users')
       /\ \A c \in Conns :
             /\ (/\ usersHas(users', c)
                 /\ \/ ~usersHas(users, c)
                    \/ usersGet(users', c).username # usersGet(users, c).username)
                   => /\ RostersOf(emitted') # {}
                      /\ \A r \in RostersOf(emitted') :
                            Contains(r, usersGet(users', c).username)
             /\ (usersHas(users, c) /\ ~usersHas(users', c))
                   => /\ RostersOf(emitted') # {}
                      /\ \A r \in RostersOf(emitted') :
                            ~Contains(r, usersGet(users, c).username)]_vars

\* Alice, Bob and Carol had joined in this order and Bob has left: the roster
\* sent is Alice, Carol
C15_Witness ==
    /\ status["s2"] = "closed"
    /\ Len(emitted) = 2
    /\ emitted[1].event = "user left"
    /\ emitted[1].data.username = Bob
    /\ emitted[2] = [event |-> "users list", to |-> {"s1", "s3"}, data |-> <<Alice, Carol>>]

NoTagDelimiter(s) == \A i \in 1..Len(s) : s[i] \notin {"<", ">"}
\* sanitizing s again changes nothing, and s has no "<" and no ">"
Sanitized(s) == sanitizeMessage(s) = s /\ NoTagDelimiter(s)

\* C16: every text in a 'chat message' emitted and every name in the registry
\* is left as it is by sanitizeMessage, so sanitizeMessage applied twice to
\* what the client sent gives what it gives applied once, and has no tag
\* delimiter, whether the client's text had <script> tags or not.
C16_Sanitized ==
    /\ \A i \in 1..Len(emitted) :
          emitted[i].event = "chat message"
             => /\ Sanitized(emitted[i].data.message)
                /\ Sanitized(emitted[i].data.username)
    /\ \A i \in 1..Len(users) : Sanitized(users[i].username)

\* the text sent was <script> followed by a stray "<": the tag left its marker
\* and the delimiter went out escaped
C16_Witness ==
    /\ Len(emitted) = 1
    /\ emitted[1].event = "chat message"
    /\ emitted[1].data.message = RemovedOpen \o <<"&", "l", "t", ";">>

\* C17: a socket that is connected and has not joined has its validation
\* timer pending, whatever joins of it were refused, so that it is closed when
\* the 30 seconds have passed: no socket stays connected without an identity
\* and without a deadline.
C17_DeadlinePending ==
    \A c \in Conns :
        (status[c] = "open" /\ ~connectionValidated[c])
           => validationTimeout[c].state = "armed"

TimerFires(c) ==
    validationTimeout[c].state = "armed" /\ validationTimeout'[c].state = "fired"
TimerCancelled(c) ==
    validationTimeout[c].state = "armed" /\ validationTimeout'[c].state = "cleared"

\* C18: the validation timer of a socket fires only while the socket is
\* connected and has not joined, and then closes it; and the timer is
\* cancelled only by the join that registers the socket or by its disconnect.
C18_DeadlineCancelledOnce ==
    [][\A c \in Conns :
          /\ TimerFires(c)
                => /\ status[c] = "open"
                   /\ ~connectionValidated[c]
                   /\ status'[c] = "closed"
          /\ TimerCancelled(c)
                => \/ ~connectionValidated[c] /\ connectionValidated'[c]
                   \/ status[c] = "open" /\ status'[c] = "closed"]_vars

\* nothing is emitted and the registry, the rate windows and the flags stay
Dropped ==
    /\ emitted' = <<>>
    /\ UNCHANGED <<users, messageLimiter, connectionValidated>>

\* C19: a 'chat message', 'file message', 'typing' or 'stop typing' of a
\* connected socket that has not joined emits nothing, to no socket, and
\* leaves the registry, the rate windows and the validated flags as they are.
C19_DroppedBeforeJoin ==
    [][\A c \in Conns :
          (status[c] = "open" /\ ~connectionValidated[c])
             => /\ \A d \in ChatPayloads : ChatMessage(c, d) => Dropped
                /\ \A d \in FilePayloads : FileMessage(c, d) => Dropped
                /\ Typing(c) => Dropped
                /\ StopTyping(c) => Dropped]_vars

\* s2 has joined and s1, connected, has had a join refused, both of which emit;
\* no time has passed, so that nothing is emitted now is the work of an event
\* of s1 that was dropped: s1 has no identity, no rate window and no flag
C19_Witness ==
    /\ now = 0
    /\ status["s1"] = "open"
    /\ ~connectionValidated["s1"]
    /\ validationTimeout["s1"].state = "cleared"
    /\ ~usersHas(users, "s1")
    /\ ~messageLimiter["s1"].has
    /\ usersHas(users, "s2")
    /\ emitted = <<>>

\* C20: a join that is refused for the format of the name, for a reserved name
\* or for a taken name leaves the registry, the rate windows, the validated
\* flag and the validation timer of the socket as they are, and the socket
\* connected.
C20_RefusedJoinChangesNothing ==
    [][\A c \in Conns :
          (status[c] = "open" /\ status' = status /\ messageLimiter' = messageLimiter)
             => \A n \in JoinNames :
                   (NameRefused(n) /\ Join(c, n))
                      => /\ UNCHANGED <<users, messageLimiter, connectionValidated>>
                         /\ validationTimeout'[c] = validationTimeout[c]
                         /\ status'[c] = "open"]_vars

\* the number of 'users list' events in what a step emitted
RosterCount(out) == Cardinality({i \in 1..Len(out) : out[i].event = "users list"})
\* the step registers socket c: it had no identity, or it had another name
RegistersIn(c) ==
    /\ usersHas(users', c)
    /\ \/ ~usersHas(users, c)
       \/ usersGet(users', c).username # usersGet(users, c).username
\* the step removes the identity of socket c
UnregistersIn(c) == usersHas(users, c) /\ ~usersHas(users', c)

\* C21: a step that registers a socket (a join that succeeds) or removes the
\* identity of one (the disconnect of a socket with an identity) emits exactly
\* one 'users list'; every other step (a refused join, a message, a typing, the
\* disconnect of a socket without identity, a timeout) emits none.
C21_OneRosterPerChange ==
    [][IF \E c \in Conns : RegistersIn(c) \/ UnregistersIn(c)
       THEN RosterCount(emitted') = 1
       ELSE RosterCount(emitted') = 0]_vars

\* the second socket has joined: 'user joined' and one 'users list' went out
C21_Witness ==
    /\ Len(users) = 2
    /\ Len(emitted) = 2
    /\ emitted[1].event = "user joined"
    /\ emitted[2].event = "users list"
    /\ emitted[2].data = usernames(users)

\* the step counts one more message for socket c
CountsMessageOf(c) ==
    /\ usersHas(users, c)
    /\ Len(users') = Len(users)
    /\ \E i \in 1..Len(users) :
          /\ users[i].id = c
          /\ users'[i].id = c
          /\ users'[i].messageCount = users[i].messageCount + 1
\* the one event emitted is the 'chat message' with this text under the name
\* of c, one event for all the connected sockets
BroadcastNow(c, text) ==
    /\ Len(emitted') = 1
    /\ emitted'[1].event = "chat message"
    /\ emitted'[1].to = Connected(status)
    /\ emitted'[1].data.message = text
    /\ \E i \in 1..Len(users) :
          users[i].id = c /\ emitted'[1].data.username = users[i].username

NameOf(u, c) == u[CHOOSE i \in 1..Len(u) : u[i].id = c].username
Attributed == {"chat message", "user typing"}
\* the name an event is attributed to: a 'user typing' carries the name alone
AttributedTo(e) == IF e.event = "user typing" THEN e.data ELSE e.data.username

\* C23: the step in which a socket with an identity disconnects removes its
\* identity and its rate window, leaves its timer not pending, and emits
\* 'user left' with its name to every other connected socket, then a 'users
\* list' without it; from then on the socket stays closed without identity,
\* and every 'chat message' and 'user typing' emitted bears the name of a
\* socket that is connected and holds an identity.
C23_DisconnectUnregisters ==
    [][/\ \A c \in Conns :
             /\ (usersHas(users, c) /\ status[c] = "open" /\ status'[c] = "closed")
                   => /\ ~usersHas(users', c)
                      /\ ~messageLimiter'[c].has
                      /\ validationTimeout'[c].state # "armed"
                      /\ Len(emitted') = 2
                      /\ emitted'[1].event = "user left"
                      /\ emitted'[1].data.username = NameOf(users, c)
                      /\ emitted'[1].to = Connected(status) \ {c}
                      /\ emitted'[2].event = "users list"
                      /\ emitted'[2].data = usernames(SelectSeq(users, LAMBDA e : e.id # c))
             /\ status[c] = "closed"
                   => /\ status'[c] = "closed"
                      /\ ~usersHas(users', c)
                      /\ ~messageLimiter'[c].has
       /\ \A i \in 1..Len(emitted') :
             emitted'[i].event \in Attributed
                => \E j \in 1..Len(users') :
                      /\ users'[j].username = AttributedTo(emitted'[i])
                      /\ status'[users'[j].id] = "open"]_vars

\* Bob, who had joined second of three, has left: his identity and his rate
\* window are gone, his timer is not pending and the two others were told
C23_Witness ==
    /\ status["s2"] = "closed"
    /\ ~usersHas(users, "s2")
    /\ ~messageLimiter["s2"].has
    /\ validationTimeout["s2"].state = "cleared"
    /\ Len(users) = 2
    /\ Len(emitted) = 2
    /\ emitted[1] = [event |-> "user left", to |-> {"s1", "s3"},
                     data |-> [username |-> Bob, timestamp |-> 0]]
    /\ emitted[2].event = "users list"

\* C24: the step in which a connected socket without identity is closed, by
\* its disconnect or by its timer, leaves the registry and the rate windows as
\* they are and emits nothing, neither 'user left' nor 'users list'; of the
\* timers and flags only its own timer changes, and is no longer pending.
C24_DisconnectWithoutIdentity ==
    [][\A c \in Conns :
          (status[c] = "open" /\ ~usersHas(users, c) /\ status'[c] = "closed")
             => /\ UNCHANGED <<users, messageLimiter, connectionValidated>>
                /\ emitted' = <<>>
                /\ validationTimeout'[c].state # "armed"
                /\ \A o \in Conns \ {c} :
                      /\ validationTimeout'[o] = validationTimeout[o]
                      /\ status'[o] = status[o]]_vars

\* s2 holds an identity, which emits at every event of s2; s1 had a join
\* refused or never joined and is closed, its timer cancelled; no time has
\* passed and nothing is emitted: the last step was the disconnect of s1
C24_Witness ==
    /\ now = 0
    /\ status["s1"] = "closed"
    /\ ~connectionValidated["s1"]
    /\ validationTimeout["s1"].state = "cleared"
    /\ usersHas(users, "s2")
    /\ roster = usernames(users)
    /\ emitted = <<>>

OnBehalf == {"chat message", "user typing", "user stop typing"}
NoneOnBehalf == \A i \in 1..Len(emitted') : emitted'[i].event \notin OnBehalf

\* C25: a message, a file message, a typing or a stop typing of a connected
\* socket that has no identity in the registry emits no 'chat message', 'user
\* typing' or 'user stop typing'; for 'stop typing', which tests the flag of
\* the socket alone, because a connected socket whose flag is set has an
\* identity.
C25_NoBroadcastWithoutIdentity ==
    [][\A c \in Conns :
          /\ (status'[c] = "open" /\ connectionValidated'[c]) => usersHas(users', c)
          /\ (status[c] = "open" /\ ~usersHas(users, c))
                => /\ \A d \in ChatPayloads : ChatMessage(c, d) => NoneOnBehalf
                   /\ \A d \in FilePayloads : FileMessage(c, d) => NoneOnBehalf
                   /\ Typing(c) => NoneOnBehalf
                   /\ StopTyping(c) => NoneOnBehalf]_vars

\* s1 has joined and s2, connected, has had a join refused, both of which
\* emit; no time has passed, so that nothing is emitted now is the work of an
\* event of s2, which has no identity, that set off no broadcast
C25_Witness ==
    /\ now = 0
    /\ usersHas(users, "s1")
    /\ connectionValidated["s1"]
    /\ status["s2"] = "open"
    /\ ~usersHas(users, "s2")
    /\ validationTimeout["s2"].state = "cleared"
    /\ emitted = <<>>

\* C26: a 'typing' of a socket with an identity is counted in the rate window
\* of the socket, and is not broadcast once the window is used up.
C26_TypingRateLimited ==
    [][\A c \in Conns :
          (usersHas(users, c) /\ connectionValidated[c] /\ Typing(c))
             => /\ messageLimiter'[c].has
                /\ messageLimiter'[c].count = CallNumber(c)
                /\ OverCap(c) => "user typing" \notin EventsOf(emitted')]_vars

\* C27: a call of checkMessageRate for a socket starts a window (count 1, reset
\* time now + 60 s) when the socket has none or when now is past the reset
\* time, strictly; otherwise, at the reset time too, it adds one to the count
\* and keeps the reset time, over the cap as well; and the call is refused
\* when the count it leaves is over 30, so every call of a window after the
\* 31st is refused.
C27_FixedWindow ==
    [][\A c \in Conns :
          RateChecked(c)
             => /\ IF messageLimiter[c].has /\ now <= messageLimiter[c].resetTime
                   THEN /\ messageLimiter'[c].count = messageLimiter[c].count + 1
                        /\ messageLimiter'[c].resetTime = messageLimiter[c].resetTime
                   ELSE /\ messageLimiter'[c].count = 1
                        /\ messageLimiter'[c].resetTime = now + MESSAGE_WINDOW
                /\ RateRefused(c) <=> messageLimiter'[c].count > MESSAGE_LIMIT
                /\ (WindowOpen(c) /\ messageLimiter[c].count > MESSAGE_LIMIT)
                      => RateRefused(c)]_vars

\* the call made at the reset time of the window was its 32nd and was refused
C27_Witness ==
    /\ usersHas(users, "s1")
    /\ messageLimiter["s1"].resetTime = now
    /\ messageLimiter["s1"].count = MESSAGE_LIMIT + 2
    /\ emitted = <<socketEmit("s1", "error", TooManyMessages)>>

ErrorTo(c, text) == [event |-> "error", to |-> {c}, data |-> text]

\* C28: a join is refused as invalid when the name as sent fails the format
\* rules; else as not allowed when the trimmed name is a reserved name up to
\* letter case; else as taken when the trimmed name is an active name up to
\* letter case; else it registers the trimmed name. And no name in the
\* registry is a reserved name in any letter case.
C28_JoinChecksInOrder ==
    [][/\ \A c \in Conns :
             (status[c] = "open" /\ status' = status /\ messageLimiter' = messageLimiter)
                => \A n \in JoinNames :
                      Join(c, n)
                         => IF ~validateUsername(n)
                            THEN emitted' = <<ErrorTo(c, "Invalid username")>>
                            ELSE IF Reserved(trim(n.s))
                            THEN emitted' = <<ErrorTo(c, "Username not allowed")>>
                            ELSE IF ActiveUpToCase(trim(n.s))
                            THEN emitted' = <<ErrorTo(c, "Username already taken")>>
                            ELSE /\ usersHas(users', c)
                                 /\ NameOf(users', c) = trim(n.s)
       /\ \A i \in 1..Len(users') : ~Reserved(users'[i].username)]_vars

\* with one socket registered, the join of the other as Admin was refused as
\* not allowed
C28_Witness ==
    /\ Len(users) = 1
    /\ users[1].id = "s1"
    /\ status["s2"] = "open"
    /\ emitted = <<ErrorTo("s2", "Username not allowed")>>

CountOf(u, c) == u[CHOOSE i \in 1..Len(u) : u[i].id = c].messageCount
\* the step emits a 'chat message' under the name socket c holds
BroadcastsFor(c) ==
    /\ Len(emitted') = 1
    /\ emitted'[1].event = "chat message"
    /\ emitted'[1].data.username = NameOf(users, c)

\* C29: over a step that leaves a socket registered its messageCount does not
\* go down, whatever the event, a further join of the socket included: it goes
\* up by one when the step broadcasts a message of the socket and stays
\* otherwise.
C29_MessageCountMonotonic ==
    [][\A c \in Conns :
          (usersHas(users, c) /\ usersHas(users', c))
             => /\ CountOf(users', c) >= CountOf(users, c)
                /\ CountOf(users', c) =
                      CountOf(users, c) + (IF BroadcastsFor(c) THEN 1 ELSE 0)]_vars

\* the step answers socket c with this error and nothing else, and leaves
\* everything as it was but the call counted in the rate window of c
FaultReported(c, text) ==
    /\ emitted' = <<ErrorTo(c, text)>>
    /\ UNCHANGED <<users, status, connectionValidated, validationTimeout, roster>>
    /\ \A o \in Conns \ {c} : messageLimiter'[o] = messageLimiter[o]
    /\ messageLimiter'[c].count = CallNumber(c)

\* C30: a 'chat message' or 'file message' with a null payload, of a socket
\* with an identity whose window is not used up, emits one generic error to
\* that socket alone; nothing is broadcast, the registry stays, and the socket
\* stays connected and validated, so that its next messages are handled as
\* after any other call counted in its window.
C30_FaultReported ==
    [][\A c \in Conns :
          (/\ usersHas(users, c)
           /\ connectionValidated[c]
           /\ status[c] = "open"
           /\ ~OverCap(c))
             => /\ ChatMessage(c, NullPayload)
                      => FaultReported(c, "Failed to send message")
                /\ FileMessage(c, NullPayload)
                      => FaultReported(c, "Failed to send file")]_vars

\* s1 had a message broadcast, then sent a null payload, which was answered
\* with the generic error, and is connected and validated
C30_Witness ==
    /\ usersHas(users, "s1")
    /\ usersGet(users, "s1").messageCount = 1
    /\ messageLimiter["s1"].count = 2
    /\ status["s1"] = "open"
    /\ connectionValidated["s1"]
    /\ status["s2"] = "open"
    /\ emitted = <<ErrorTo("s1", "Failed to send message")>>

\* C31: a join received on a connected socket that is validated leaves the
\* registry as it is, the name, the join time and the message count of the
\* socket included, and emits neither 'user joined' nor 'users list': the
\* identity of a socket stays what its first successful join made it.
C31_IdentityFixed ==
    [][\A c \in Conns :
          (status[c] = "open" /\ connectionValidated[c] /\ status' = status)
             => \A n \in JoinNames :
                   Join(c, n)
                      => /\ users' = users
                         /\ "user joined" \notin EventsOf(emitted')
                         /\ "users list" \notin EventsOf(emitted')]_vars

\* the call is counted in the window of c and no message is
Charged(c) ==
    /\ messageLimiter'[c].has
    /\ messageLimiter'[c].count = CallNumber(c)
    /\ users' = users

\* C32: a 'chat message' with a bad or over-long text and a 'file message'
\* that lacks a field of the file, of a socket with an identity, are counted
\* in the rate window of the socket like any other call; so a message that is
\* valid is refused by the rate limiter once the window holds 30 calls, though
\* none of them was broadcast.
C32_ChargedBeforeValidation ==
    [][\A c \in Conns :
          (/\ usersHas(users, c)
           /\ connectionValidated[c]
           /\ emitted' # <<>>
           /\ emitted'[1].event = "error")
             => /\ \A d \in ChatPayloads :
                      (~d.nul /\ ~validateMessage(d.message) /\ ChatMessage(c, d))
                         => Charged(c)
                /\ \A d \in FilePayloads :
                      (~d.nul /\ fileInvalid(d.file) /\ FileMessage(c, d))
                         => Charged(c)
                /\ (OverCap(c) /\ CountOf(users, c) = 0)
                      => /\ \A d \in ChatPayloads :
                               (~d.nul /\ validateMessage(d.message) /\ ChatMessage(c, d))
                                  => RefusedByRate(c)
                         /\ \A d \in FilePayloads :
                               (~d.nul /\ ~fileInvalid(d.file) /\ FileMessage(c, d))
                                  => RefusedByRate(c)]_vars

\* s1 has used up its window with 30 calls of which none was broadcast, and
\* its 31st call was refused by the rate limiter
C32_Witness ==
    /\ usersHas(users, "s1")
    /\ usersGet(users, "s1").messageCount = 0
    /\ messageLimiter["s1"].count = MESSAGE_LIMIT + 1
    /\ emitted = <<ErrorTo("s1", TooManyMessages)>>

====
